---- MODULE Spec2Model ----
(***************************************************************************)
(* Model of rawlink-backend: settlement, wallet credit, order API, chat.   *)
(*                                                                         *)
(* The committed database rows (wallets, transactions, listings, orders)   *)
(* are the shared state.  Each worker runs one request at a time:          *)
(* OrderSerializer.create (api/serializers.py) or WalletViewSet.add_credit *)
(* (api/views.py).  A request runs in a database transaction: rows taken   *)
(* with select_for_update() or written with save() stay locked until the   *)
(* transaction ends, writes are buffered until commit and are discarded    *)
(* when an exception leaves the atomic block.  The database is PostgreSQL  *)
(* (settings.py, ssl_require) at its default READ COMMITTED level.         *)
(*                                                                         *)
(* Three specifications share the rows: Spec (create and add_credit),     *)
(* SpecOrders (update_status, update, partial_update and destroy on a      *)
(* placed order) and SpecWrites (create and add_credit next to the other   *)
(* code that saves wallet and listing rows).                               *)
(*                                                                         *)
(* Units: stored money is in cents and quantities in hundredths of a unit  *)
(* (DecimalField(decimal_places=2)); products price * quantity are in      *)
(* ten-thousandths and are rounded to cents when a row is stored.          *)
(*                                                                         *)
(* The chat (api/middleware.py, api/consumers.py, MessageViewSet) has its  *)
(* own state and three specifications: SpecAuth (the handshake with every  *)
(* kind of token), SpecChat (connections, receive(), the channel layer and *)
(* the message resource) and SpecDelivery (good frames only, with weak     *)
(* fairness of the server's steps).                                        *)
(***************************************************************************)
EXTENDS Integers, Sequences, FiniteSets, TLC

\* ------------------------------------------------------------ bounds
MaxCalls == 2

Procs == {1, 2}
Users == {1, 2, 3}
Listings == {1, 2}

\* ------------------------------------------------------------ fixtures
\* Listing rows as created by their vendors: vendor, price_per_unit (cents)
\* and quantity (hundredths).
Vendor == <<1, 2>>
Price == <<50, 200>>
InitQuantity == <<100, 100>>
Title == <<"rice", "wheat">>
\* Every wallet was created with balance 0 by the post_save signal and then
\* credited once through add_credit.
InitCredit == {100}
\* A wallet removed through the admin site (WalletAdmin): nobody, or user 2.
NoWalletChoices == {{}, {2}}

\* ------------------------------------------------------------ inputs
QuantityInputs == {-100, 25, 100}
PaymentMethods == {"wallet", "cash"}
\* request.data.get('amount'): absent, text that is no number, or a number
\* (in ten-thousandths).
AmountInputs ==
    { [kind |-> "missing", val |-> 0],
      [kind |-> "text", val |-> 0],
      [kind |-> "num", val |-> 0],
      [kind |-> "num", val |-> -10000],
      [kind |-> "num", val |-> 10000] }

OrderCalls ==
    [op : {"create"}, user : Users, listing : Listings,
     quantity_bought : QuantityInputs, payment_method : PaymentMethods,
     amount : {[kind |-> "missing", val |-> 0]}]
CreditCalls ==
    [op : {"add_credit"}, user : Users, listing : {1},
     quantity_bought : {0}, payment_method : {"none"},
     amount : AmountInputs]
NoCall ==
    [op |-> "none", user |-> 1, listing |-> 1, quantity_bought |-> 0,
     payment_method |-> "none", amount |-> [kind |-> "missing", val |-> 0]]

VARIABLES
    balance,      \* Wallet.balance per user, cents (committed)
    hasWallet,    \* whether the user's Wallet row exists
    transactions, \* Transaction rows per wallet, oldest first (committed)
    quantity,     \* Listing.quantity per listing, hundredths (committed)
    status,       \* Listing.status per listing (committed)
    orders,       \* Order rows, oldest first (committed)
    listingLock,  \* row lock on a Listing: the holder, or 0
    walletLock,   \* row lock on a Wallet: the holder, or 0
    pc,           \* each worker's position in its handler
    call,         \* the request a worker runs, or ran last
    loc,          \* the handler's local variables
    wr,           \* the transaction's uncommitted writes
    err,          \* the outcome of the worker's last request
    ncalls,       \* requests begun so far
    base,         \* committed rows when the running group of requests began
    epochN,       \* number of requests begun since all workers were idle
    roundMode,    \* how the build rounds a stored decimal that ends in 5
    connState,    \* each websocket connection: new, handshake, denied,
                  \* connecting, open, rejected or closed
    scope,        \* the connection's ASGI scope: query string, header, user
    room_group_name, \* the consumer's room_group_name attribute, 0 if unset
    groups,       \* channel layer: the channels of each group chat_<user id>
    messages,     \* Message rows, oldest first (committed)
    msgSeq,       \* the last primary key given to a Message row
    queue,        \* channel layer: the events waiting on each channel
    delivered,    \* the frames sent to each connection's client
    rpc,          \* each consumer's position in receive()
    rdata,        \* the payload receive() works on
    rmsg,         \* the Message instance receive() created
    nsends,       \* frames received from clients so far
    nedits,       \* requests to the message resource so far
    disconnects,  \* how often each consumer's disconnect() has run
    printed       \* the error receive() printed on its last run, or "none"

vars == <<balance, hasWallet, transactions, quantity, status, orders,
          listingLock, walletLock, pc, call, loc, wr, err, ncalls,
          base, epochN, roundMode,
          connState, scope, room_group_name, groups, messages, msgSeq,
          queue, delivered, rpc, rdata, rmsg, nsends, nedits, disconnects, printed>>

\* The rows and workers of the HTTP API.
api == <<balance, hasWallet, transactions, quantity, status, orders,
         listingLock, walletLock, pc, call, loc, wr, err, ncalls,
         base, epochN, roundMode>>

\* The state of the chat: connections, channel layer and Message rows.
chat == <<connState, scope, room_group_name, groups, messages, msgSeq,
          queue, delivered, rpc, rdata, rmsg, nsends, nedits, disconnects, printed>>

db == <<balance, hasWallet, transactions, quantity, status, orders>>

\* ------------------------------------------------------------ decimals
\* A value in ten-thousandths stored in a column with two decimal places,
\* in cents.  A value ending in exactly 50 is rounded half-even by Django's
\* format_number and half away from zero by PostgreSQL's numeric.
Round2(x, mode) ==
    LET q == x \div 100
        r == x % 100
    IN  IF r < 50 THEN q
        ELSE IF r > 50 THEN q + 1
        ELSE IF mode = "half_even" THEN (IF q % 2 = 0 THEN q ELSE q + 1)
        ELSE (IF x >= 0 THEN q + 1 ELSE q)

Stored(x) == Round2(x, roundMode)

\* total_price = listing.price_per_unit * quantity_bought (ten-thousandths)
TotalPrice(l, q) == Price[l] * q

NoLoc == [quantity |-> 0, total_price |-> 0, buyer_balance |-> 0, vendor_balance |-> 0]
NoWrites == [bal |-> <<>>, tx |-> <<>>, ord |-> <<>>]

Snapshot ==
    [balance |-> balance, hasWallet |-> hasWallet, transactions |-> transactions,
     quantity |-> quantity, status |-> status, orders |-> orders]

AllIdle == \A p \in Procs : pc[p] = "idle"

\* Websocket connections (one consumer instance each).
Conns == {1, 2}

\* A header, a payload and a Message instance that are not there.
NoToken == [form |-> "none", expired |-> FALSE, user_id |-> 0]
NoHeader == [scheme |-> "none", token |-> NoToken]
NoData == [json |-> FALSE, message |-> "", receiver_id |-> 0]
NoMessage == [id |-> 0, sender |-> 0, receiver |-> 0, content |-> ""]

\* No connection has been opened and no message stored.
ChatInit ==
    /\ connState = [c \in Conns |-> "new"]
    /\ scope = [c \in Conns |-> [query |-> <<>>, header |-> NoHeader, user |-> 0]]
    /\ room_group_name = [c \in Conns |-> 0]
    /\ groups = [u \in Users |-> {}]
    /\ messages = <<>>
    /\ msgSeq = 0
    /\ queue = [c \in Conns |-> <<>>]
    /\ delivered = [c \in Conns |-> <<>>]
    /\ rpc = [c \in Conns |-> "idle"]
    /\ rdata = [c \in Conns |-> NoData]
    /\ rmsg = [c \in Conns |-> NoMessage]
    /\ nsends = 0
    /\ nedits = 0
    /\ disconnects = [c \in Conns |-> 0]
    /\ printed = [c \in Conns |-> "none"]

Init ==
    /\ \E nw \in NoWalletChoices, c \in InitCredit :
        /\ hasWallet = [u \in Users |-> u \notin nw]
        /\ balance = [u \in Users |-> IF u \in nw THEN 0 ELSE c]
        /\ transactions = [u \in Users |->
                IF u \in nw THEN <<>> ELSE <<[amount |-> c, type |-> "credit"]>>]
    /\ quantity = [l \in Listings |-> InitQuantity[l]]
    /\ status = [l \in Listings |-> "available"]
    /\ orders = <<>>
    /\ listingLock = [l \in Listings |-> 0]
    /\ walletLock = [u \in Users |-> 0]
    /\ pc = [p \in Procs |-> "idle"]
    /\ call = [p \in Procs |-> NoCall]
    /\ loc = [p \in Procs |-> NoLoc]
    /\ wr = [p \in Procs |-> NoWrites]
    /\ err = [p \in Procs |-> "none"]
    /\ ncalls = 0
    /\ base = Snapshot
    /\ epochN = 0
    /\ roundMode \in {"half_even", "half_away"}
    /\ ChatInit

\* ------------------------------------------------------------ transactions
\* Leaving the atomic block by an exception: the transaction rolls back, its
\* writes are discarded and its row locks released; the request ends with e.
ReleaseLocks(p) ==
    /\ listingLock' = [l \in Listings |-> IF listingLock[l] = p THEN 0 ELSE listingLock[l]]
    /\ walletLock' = [u \in Users |-> IF walletLock[u] = p THEN 0 ELSE walletLock[u]]

Finish(p, e) ==
    /\ pc' = [pc EXCEPT ![p] = "idle"]
    /\ err' = [err EXCEPT ![p] = e]
    /\ loc' = [loc EXCEPT ![p] = NoLoc]
    /\ wr' = [wr EXCEPT ![p] = NoWrites]

Rollback(p, e) ==
    /\ Finish(p, e)
    /\ ReleaseLocks(p)
    /\ UNCHANGED db

\* A request arrives at an idle worker.  When every worker is idle the
\* responses of the earlier requests have been delivered: the new request
\* opens a new group of overlapping requests.
Begin(p) ==
    /\ pc[p] = "idle"
    /\ ncalls < MaxCalls
    /\ \E c \in OrderCalls \cup CreditCalls :
        /\ call' = [q \in Procs |->
               IF q = p THEN c ELSE IF AllIdle THEN NoCall ELSE call[q]]
        /\ pc' = [pc EXCEPT ![p] = IF c.op = "create" THEN "lock_listing" ELSE "add_credit"]
    /\ err' = [q \in Procs |->
           IF q = p THEN "running" ELSE IF AllIdle THEN "none" ELSE err[q]]
    /\ ncalls' = ncalls + 1
    /\ IF AllIdle
         THEN base' = Snapshot /\ epochN' = 1
         ELSE base' = base /\ epochN' = epochN + 1
    /\ UNCHANGED <<db, listingLock, walletLock, loc, wr, roundMode, chat>>

\* ------------------------------------------------------------ create
\* Mutant of ListingFound: the status is not part of the lookup.
ListingFoundAnyStatus(l) == status[l] # "deleted"

\* Listing.objects.select_for_update().get(id=listing_id, status="available")
\* finds no row when the committed status is not "available".
ListingFound(l) == status[l] = "available"

\* Mutants of ListingCheck: the inventory check left out; the two checks in
\* the other order; the vendor check left out.
ListingCheckNoInventory(c, l) ==
    IF c.user = Vendor[l] THEN "SelfPurchaseForbidden" ELSE "ok"

ListingCheckSwapped(c, l) ==
    IF c.quantity_bought > quantity[l] THEN "InsufficientInventory"
    ELSE IF c.user = Vendor[l] THEN "SelfPurchaseForbidden"
    ELSE "ok"

ListingCheckNoSelf(c, l) ==
    IF c.quantity_bought > quantity[l] THEN "InsufficientInventory" ELSE "ok"

\* The checks made on the locked listing row.
ListingCheck(c, l) ==
    IF c.user = Vendor[l] THEN "SelfPurchaseForbidden"
    ELSE IF c.quantity_bought > quantity[l] THEN "InsufficientInventory"
    ELSE "ok"

\* Mutant of ListingRowFree: a plain select, which waits for no lock.
ListingRowFreeUnlocked(l) == TRUE

\* select_for_update() on the listing returns once no other transaction
\* holds the row.
ListingRowFree(l) == listingLock[l] = 0

\* Mutant of PaidByWallet: every payment method settled through the wallets.
PaidByWalletAlways(c) == TRUE

\* if payment_method == "wallet": the wallet steps are run.
PaidByWallet(c) == c.payment_method = "wallet"

\* Lock the listing row, check vendor and inventory, compute total_price.
CreateLockListing(p) ==
    /\ pc[p] = "lock_listing"
    /\ LET c == call[p]
           l == c.listing
       IN  IF ~ListingFound(l)
             THEN Rollback(p, "ListingUnavailable")
             ELSE /\ ListingRowFree(l)
                  /\ IF ListingCheck(c, l) # "ok"
                       THEN Rollback(p, ListingCheck(c, l))
                       ELSE /\ listingLock' = [listingLock EXCEPT ![l] = p]
                            /\ loc' = [loc EXCEPT ![p] =
                                   [NoLoc EXCEPT !.quantity = quantity[l],
                                                 !.total_price = TotalPrice(l, c.quantity_bought)]]
                            /\ pc' = [pc EXCEPT ![p] =
                                   IF PaidByWallet(c)
                                     THEN "lock_buyer" ELSE "create_order"]
                            /\ UNCHANGED <<db, walletLock, wr, err>>
    /\ UNCHANGED <<call, ncalls, base, epochN, roundMode, chat>>

\* buyer_wallet.balance < total_price, both exact decimals.
InsufficientFunds(bal, total) == bal * 100 < total

\* Lock the buyer's wallet row and check the balance.
CreateLockBuyerWallet(p) ==
    /\ pc[p] = "lock_buyer"
    /\ LET c == call[p]
           u == c.user
       IN  IF ~hasWallet[u]
             THEN Rollback(p, "BuyerWalletNotFound")
             ELSE /\ walletLock[u] = 0
                  /\ IF InsufficientFunds(balance[u], loc[p].total_price)
                       THEN Rollback(p, "InsufficientFunds")
                       ELSE /\ walletLock' = [walletLock EXCEPT ![u] = p]
                            /\ loc' = [loc EXCEPT ![p].buyer_balance = balance[u]]
                            /\ pc' = [pc EXCEPT ![p] = "lock_vendor"]
                            /\ UNCHANGED <<db, listingLock, wr, err>>
    /\ UNCHANGED <<call, ncalls, base, epochN, roundMode, chat>>

\* Lock the vendor's wallet row.
CreateLockVendorWallet(p) ==
    /\ pc[p] = "lock_vendor"
    /\ LET v == Vendor[call[p].listing]
       IN  IF ~hasWallet[v]
             THEN Rollback(p, "VendorWalletNotFound")
             ELSE /\ walletLock[v] = 0
                  /\ walletLock' = [walletLock EXCEPT ![v] = p]
                  /\ loc' = [loc EXCEPT ![p].vendor_balance = balance[v]]
                  /\ pc' = [pc EXCEPT ![p] = "transfer"]
                  /\ UNCHANGED <<db, listingLock, wr, err>>
    /\ UNCHANGED <<call, ncalls, base, epochN, roundMode, chat>>

\* Mutant of AppendTx: the newest record takes the place of the wallet's
\* earlier records.
AppendTxReplace(t, txs) ==
    [u \in Users |->
        LET mine == SelectSeq(txs, LAMBDA x : x.wallet = u)
        IN  IF mine = <<>> THEN t[u]
            ELSE <<[amount |-> mine[Len(mine)].amount, type |-> mine[Len(mine)].type]>>]

\* Transaction.objects.create(...) for each record, in order.
RECURSIVE AppendTx(_, _)
AppendTx(t, txs) ==
    IF txs = <<>> THEN t
    ELSE AppendTx([t EXCEPT ![Head(txs).wallet] =
                      Append(@, [amount |-> Head(txs).amount, type |-> Head(txs).type])],
                  Tail(txs))

\* Mutant of SaveWallets: the rows are written outside any transaction
\* (autocommit), at once visible and not undone by a later exception.
SaveWalletsAutocommit(p, bals, txs) ==
    /\ balance' = [u \in Users |-> IF u \in DOMAIN bals THEN bals[u] ELSE balance[u]]
    /\ transactions' = AppendTx(transactions, txs)
    /\ wr' = wr
    /\ UNCHANGED <<hasWallet, quantity, status, orders>>

\* save() and Transaction.objects.create() inside the atomic block: the rows
\* written are visible to no other transaction before the commit.
SaveWallets(p, bals, txs) ==
    /\ wr' = [wr EXCEPT ![p].bal = bals, ![p].tx = txs]
    /\ UNCHANGED db

\* buyer_wallet.balance -= total_price; vendor_wallet.balance += total_price;
\* both saved; one purchase and one sale Transaction created.
CreateTransfer(p) ==
    /\ pc[p] = "transfer"
    /\ LET c == call[p]
           u == c.user
           v == Vendor[c.listing]
           t == loc[p].total_price
       IN  SaveWallets(p,
               (u :> Stored(loc[p].buyer_balance * 100 - t))
                   @@ (v :> Stored(loc[p].vendor_balance * 100 + t)),
               << [wallet |-> u, amount |-> Stored(-t), type |-> "purchase"],
                  [wallet |-> v, amount |-> Stored(t), type |-> "sale"] >>)
    /\ pc' = [pc EXCEPT ![p] = "create_order"]
    /\ UNCHANGED <<listingLock, walletLock, call, loc, err, ncalls, base, epochN, roundMode, chat>>

\* Order.objects.create(..., status="confirmed")
CreateOrder(p) ==
    /\ pc[p] = "create_order"
    /\ LET c == call[p]
       IN  wr' = [wr EXCEPT ![p].ord =
               << [id |-> 0,
                   buyer |-> c.user, vendor |-> Vendor[c.listing], listing |-> c.listing,
                   listing_title |-> Title[c.listing],
                   quantity_bought |-> c.quantity_bought,
                   total_price |-> Stored(loc[p].total_price),
                   status |-> "confirmed"] >>]
    /\ pc' = [pc EXCEPT ![p] = "update_listing"]
    /\ UNCHANGED <<db, listingLock, walletLock, call, loc, err, ncalls, base, epochN, roundMode, chat>>

\* Mutant of NewStatus: the flip made only below zero.
NewStatusStrict(q) == IF q < 0 THEN "completed" ELSE "available"

\* listing.status after the decrement.
NewStatus(q) == IF q <= 0 THEN "completed" ELSE "available"

\* The primary key the database gives the next Order row.
NextOrderId(os) == IF os = <<>> THEN 1 ELSE os[Len(os)].id + 1

\* The transaction's wallet, transaction and order writes become visible.
CommitWrites(p) ==
    /\ balance' = [u \in Users |->
          IF u \in DOMAIN wr[p].bal THEN wr[p].bal[u] ELSE balance[u]]
    /\ transactions' = AppendTx(transactions, wr[p].tx)
    /\ orders' = orders \o
          [i \in DOMAIN wr[p].ord |-> [wr[p].ord[i] EXCEPT !.id = NextOrderId(orders)]]
    /\ UNCHANGED hasWallet

\* listing.quantity -= quantity_bought; status flips at <= 0; listing.save();
\* the atomic block ends and the transaction commits.
CreateUpdateListing(p) ==
    /\ pc[p] = "update_listing"
    /\ LET l == call[p].listing
           q == loc[p].quantity - call[p].quantity_bought
       IN  /\ quantity' = [quantity EXCEPT ![l] = q]
           /\ status' = [status EXCEPT ![l] = NewStatus(q)]
    /\ CommitWrites(p)
    /\ ReleaseLocks(p)
    /\ Finish(p, "ok")
    /\ UNCHANGED <<call, ncalls, base, epochN, roundMode, chat>>

\* A database error raised by a statement inside the atomic block after the
\* checks passed (Order.objects.create or a save failing): the exception
\* leaves the block and the transaction rolls back.
CreateRaise(p) ==
    /\ pc[p] \in {"create_order", "update_listing"}
    /\ Rollback(p, "DatabaseError")
    /\ UNCHANGED <<call, ncalls, base, epochN, roundMode, chat>>

\* The lock a blocked worker waits for is held by q.
WaitsFor(p, q) ==
    /\ q # p
    /\ \/ pc[p] = "lock_buyer" /\ hasWallet[call[p].user]
          /\ walletLock[call[p].user] = q
       \/ pc[p] = "lock_vendor" /\ hasWallet[Vendor[call[p].listing]]
          /\ walletLock[Vendor[call[p].listing]] = q
       \/ pc[p] = "lock_listing" /\ ListingFound(call[p].listing)
          /\ listingLock[call[p].listing] = q

\* PostgreSQL's deadlock detector ends one of the transactions of a cycle.
DeadlockAbort(p) ==
    /\ \E q \in Procs : WaitsFor(p, q) /\ WaitsFor(q, p)
    /\ Rollback(p, "DeadlockDetected")
    /\ UNCHANGED <<call, ncalls, base, epochN, roundMode, chat>>

\* ------------------------------------------------------------ add_credit
\* amount = request.data.get('amount') and its validation.
AmountError(a) ==
    IF a.kind = "missing" THEN "AmountNotProvided"
    ELSE IF a.kind = "text" THEN "InvalidAmount"
    ELSE IF a.val <= 0 THEN "AmountNotPositive"
    ELSE "ok"

\* wallet = request.user.wallet: an unlocked read of the row.
AddCreditRead(p) ==
    /\ pc[p] = "add_credit"
    /\ LET c == call[p]
       IN  IF AmountError(c.amount) # "ok"
             THEN Rollback(p, AmountError(c.amount))
             ELSE IF ~hasWallet[c.user]
               THEN Rollback(p, "RelatedObjectDoesNotExist")
               ELSE /\ loc' = [loc EXCEPT ![p].buyer_balance = balance[c.user]]
                    /\ pc' = [pc EXCEPT ![p] = "credit_save"]
                    /\ UNCHANGED <<db, listingLock, walletLock, wr, err>>
    /\ UNCHANGED <<call, ncalls, base, epochN, roundMode, chat>>

\* wallet.balance += amount; wallet.save(); Transaction.objects.create(...);
\* the atomic blocks end and the transaction commits.  The UPDATE waits for
\* the row lock and writes the value computed from the earlier read.
AddCreditSave(p) ==
    /\ pc[p] = "credit_save"
    /\ LET c == call[p]
           u == c.user
       IN  /\ walletLock[u] = 0
           /\ balance' = [balance EXCEPT ![u] = Stored(loc[p].buyer_balance * 100 + c.amount.val)]
           /\ transactions' = [transactions EXCEPT ![u] =
                  Append(@, [amount |-> Stored(c.amount.val), type |-> "credit"])]
    /\ Finish(p, "ok")
    /\ UNCHANGED <<hasWallet, quantity, status, orders, listingLock, walletLock,
                   call, ncalls, base, epochN, roundMode, chat>>

Next ==
    \E p \in Procs :
        \/ Begin(p)
        \/ CreateLockListing(p)
        \/ CreateLockBuyerWallet(p)
        \/ CreateLockVendorWallet(p)
        \/ CreateTransfer(p)
        \/ CreateOrder(p)
        \/ CreateUpdateListing(p)
        \/ CreateRaise(p)
        \/ DeadlockAbort(p)
        \/ AddCreditRead(p)
        \/ AddCreditSave(p)

Spec == Init /\ [][Next]_vars

\* ------------------------------------------------------------ one request alone
\* The outcome of OrderSerializer.create on the committed rows d when no
\* other request runs: the first check that raises, or "ok".
CreateOutcome(d, c) ==
    LET l == c.listing
        t == TotalPrice(l, c.quantity_bought)
    IN  IF d.status[l] # "available" THEN "ListingUnavailable"
        ELSE IF c.user = Vendor[l] THEN "SelfPurchaseForbidden"
        ELSE IF c.quantity_bought > d.quantity[l] THEN "InsufficientInventory"
        ELSE IF c.payment_method # "wallet" THEN "ok"
        ELSE IF ~d.hasWallet[c.user] THEN "BuyerWalletNotFound"
        ELSE IF InsufficientFunds(d.balance[c.user], t) THEN "InsufficientFunds"
        ELSE IF ~d.hasWallet[Vendor[l]] THEN "VendorWalletNotFound"
        ELSE "ok"

\* The committed rows after OrderSerializer.create ran alone on d.
CreateAlone(d, c) ==
    LET l == c.listing
        u == c.user
        v == Vendor[l]
        t == TotalPrice(l, c.quantity_bought)
        q == d.quantity[l] - c.quantity_bought
        paid == c.payment_method = "wallet"
    IN  IF CreateOutcome(d, c) # "ok" THEN d
        ELSE [d EXCEPT
                !.balance = IF paid
                    THEN [@ EXCEPT ![u] = Stored(@ * 100 - t), ![v] = Stored(@ * 100 + t)]
                    ELSE @,
                !.transactions = IF paid
                    THEN [@ EXCEPT
                            ![u] = Append(@, [amount |-> Stored(-t), type |-> "purchase"]),
                            ![v] = Append(@, [amount |-> Stored(t), type |-> "sale"])]
                    ELSE @,
                !.orders = Append(@,
                    [id |-> NextOrderId(d.orders),
                     buyer |-> u, vendor |-> v, listing |-> l,
                     listing_title |-> Title[l],
                     quantity_bought |-> c.quantity_bought,
                     total_price |-> Stored(t), status |-> "confirmed"]),
                !.quantity = [@ EXCEPT ![l] = q],
                !.status = [@ EXCEPT ![l] = NewStatus(q)]]

\* The committed rows after WalletViewSet.add_credit ran alone on d.
CreditAlone(d, c) ==
    IF AmountError(c.amount) # "ok" \/ ~d.hasWallet[c.user] THEN d
    ELSE [d EXCEPT
            !.balance = [@ EXCEPT ![c.user] = Stored(@ * 100 + c.amount.val)],
            !.transactions = [@ EXCEPT ![c.user] =
                Append(@, [amount |-> Stored(c.amount.val), type |-> "credit"])]]

\* ------------------------------------------------------------ order API
\* OrderViewSet (api/views.py) is a ModelViewSet: besides create it serves
\* update (PUT), partial_update (PATCH) and destroy (DELETE) on an order, and
\* the update_status action.  None of them opens a transaction: every ORM
\* statement commits on its own, and a handler works on the instance it read.
MaxOrderCalls == 3

OrderIds == {1}
\* request.data.get('status'): "" stands for an absent status.
StatusInputs == {"", "shipped", "completed", "cancelled"}
\* The writable fields of OrderSerializer a PUT or PATCH body may carry.
UpdateData ==
    [given : {{"quantity_bought"}, {"listing_id", "quantity_bought"}},
     listing_id : {2}, quantity_bought : {50}]

StatusCalls == [op : {"update_status"}, user : Users, order : OrderIds, status : StatusInputs]
UpdateCalls == [op : {"update", "partial_update"}, user : Users, order : OrderIds, data : UpdateData]
DestroyCalls == [op : {"destroy"}, user : Users, order : OrderIds]

\* The orders placed before the order API is exercised: user 3 bought part
\* or all of listing 1 for cash.
PlacedOrders ==
    [op : {"create"}, user : {3}, listing : {1},
     quantity_bought : {25, 100}, payment_method : {"cash"},
     amount : {[kind |-> "missing", val |-> 0]}]

\* The rows after construction: every wallet present and credited once.
FirstRows(c) ==
    [balance |-> [u \in Users |-> c],
     hasWallet |-> [u \in Users |-> TRUE],
     transactions |-> [u \in Users |-> <<[amount |-> c, type |-> "credit"]>>],
     quantity |-> [l \in Listings |-> InitQuantity[l]],
     status |-> [l \in Listings |-> "available"],
     orders |-> <<>>]

\* The committed rows are d and every worker is idle.
InitWith(d) ==
    /\ balance = d.balance
    /\ hasWallet = d.hasWallet
    /\ transactions = d.transactions
    /\ quantity = d.quantity
    /\ status = d.status
    /\ orders = d.orders
    /\ listingLock = [l \in Listings |-> 0]
    /\ walletLock = [u \in Users |-> 0]
    /\ pc = [p \in Procs |-> "idle"]
    /\ call = [p \in Procs |-> NoCall]
    /\ loc = [p \in Procs |-> NoLoc]
    /\ wr = [p \in Procs |-> NoWrites]
    /\ err = [p \in Procs |-> "none"]
    /\ ncalls = 0
    /\ base = Snapshot
    /\ epochN = 0
    /\ ChatInit

\* ListingViewSet.destroy by the vendor: a listing outside the queryset of
\* available listings is not found; otherwise the row is deleted (status
\* "deleted" stands for no row) and Order.listing, on_delete=SET_NULL,
\* becomes null (0) in the orders that referred to it.
ListingDestroyed(d, l) ==
    IF d.status[l] # "available" THEN d
    ELSE [d EXCEPT !.status = [d.status EXCEPT ![l] = "deleted"],
                   !.orders = [i \in 1..Len(d.orders) |->
                                  IF d.orders[i].listing = l
                                    THEN [d.orders[i] EXCEPT !.listing = 0]
                                    ELSE d.orders[i]]]

\* The rows after construction and one placed order, whose listing the
\* vendor may have deleted since.
InitOrders ==
    /\ roundMode \in {"half_even", "half_away"}
    /\ \E c \in InitCredit, o \in PlacedOrders, gone \in BOOLEAN :
          LET d == CreateAlone(FirstRows(c), o)
          IN  InitWith(IF gone THEN ListingDestroyed(d, o.listing) ELSE d)

\* The handler a request starts in.
FirstStep(c) ==
    IF c.op = "update_status" THEN "us_get"
    ELSE IF c.op \in {"update", "partial_update"} THEN "ou_get"
    ELSE "od_get"

\* A request to the order API arrives at an idle worker.
OrderBegin(p) ==
    /\ pc[p] = "idle"
    /\ ncalls < MaxOrderCalls
    /\ \E c \in StatusCalls \cup UpdateCalls \cup DestroyCalls :
        /\ call' = [q \in Procs |->
               IF q = p THEN c ELSE IF AllIdle THEN NoCall ELSE call[q]]
        /\ pc' = [pc EXCEPT ![p] = FirstStep(c)]
    /\ err' = [q \in Procs |->
           IF q = p THEN "running" ELSE IF AllIdle THEN "none" ELSE err[q]]
    /\ ncalls' = ncalls + 1
    /\ IF AllIdle
         THEN base' = Snapshot /\ epochN' = 1
         ELSE base' = base /\ epochN' = epochN + 1
    /\ UNCHANGED <<db, listingLock, walletLock, loc, wr, roundMode, chat>>

\* The response is sent: the handler returns without a further write.
Respond(p, e) ==
    /\ Finish(p, e)
    /\ UNCHANGED <<db, listingLock, walletLock>>

\* Order.objects.filter(Q(buyer=user) | Q(vendor=user)).distinct()
GetQueryset(user) ==
    SelectSeq(orders, LAMBDA o : o.buyer = user \/ o.vendor = user)

\* self.get_object(): the rows of the queryset with the requested pk; none
\* makes the view answer 404.
GetObject(user, pk) == SelectSeq(GetQueryset(user), LAMBDA o : o.id = pk)

\* instance.save(): an UPDATE of the whole row by primary key, and an INSERT
\* of the instance when the UPDATE matched no row.
SaveRow(os, o) ==
    IF \E i \in 1..Len(os) : os[i].id = o.id
      THEN [i \in 1..Len(os) |-> IF os[i].id = o.id THEN o ELSE os[i]]
      ELSE Append(os, o)

\* Mutant of StatusDecision: the buyer may complete an order again.
StatusDecisionRepeat(user, order, new_status) ==
    IF new_status = "" THEN "StatusNotProvided"
    ELSE IF user = order.vendor
      THEN (IF new_status = "shipped" /\ order.status = "confirmed"
              THEN "shipped" ELSE "InvalidVendorUpdate")
    ELSE IF user = order.buyer
      THEN (IF new_status = "completed" /\ order.status \in {"shipped", "completed"}
              THEN "completed" ELSE "InvalidBuyerUpdate")
    ELSE "NotAuthorized"

\* The branches of update_status on the order read: the status to save, or
\* the error answered.
StatusDecision(user, order, new_status) ==
    IF new_status = "" THEN "StatusNotProvided"
    ELSE IF user = order.vendor
      THEN (IF new_status = "shipped" /\ order.status = "confirmed"
              THEN "shipped" ELSE "InvalidVendorUpdate")
    ELSE IF user = order.buyer
      THEN (IF new_status = "completed" /\ order.status = "shipped"
              THEN "completed" ELSE "InvalidBuyerUpdate")
    ELSE "NotAuthorized"

\* order = self.get_object() and the checks of update_status.
UpdateStatusGet(p) ==
    /\ pc[p] = "us_get"
    /\ LET c == call[p]
           rows == GetObject(c.user, c.order)
       IN  IF rows = <<>>
             THEN Respond(p, "NotFound")
             ELSE LET d == StatusDecision(c.user, rows[1], c.status)
                  IN  IF d \notin {"shipped", "completed"}
                        THEN Respond(p, d)
                        ELSE /\ loc' = [loc EXCEPT ![p] =
                                   [order |-> [rows[1] EXCEPT !.status = d], quantity |-> 0]]
                             /\ pc' = [pc EXCEPT ![p] = "us_save_order"]
                             /\ UNCHANGED <<db, listingLock, walletLock, wr, err>>
    /\ UNCHANGED <<call, ncalls, base, epochN, roundMode, chat>>

\* order.save(); the vendor's request is answered, the buyer's goes on to the
\* listing.
UpdateStatusSaveOrder(p) ==
    /\ pc[p] = "us_save_order"
    /\ orders' = SaveRow(orders, loc[p].order)
    /\ IF loc[p].order.status = "shipped"
         THEN Finish(p, "ok")
         ELSE /\ pc' = [pc EXCEPT ![p] = "us_listing"]
              /\ UNCHANGED <<loc, wr, err>>
    /\ UNCHANGED <<balance, hasWallet, transactions, quantity, status,
                   listingLock, walletLock, call, ncalls, base, epochN, roundMode, chat>>

\* Mutant of ListingToComplete: the quantity is not looked at.
ListingToCompleteAlways(order) == order.listing # 0

\* if order.listing and order.listing.quantity <= 0
ListingToComplete(order) ==
    order.listing # 0 /\ quantity[order.listing] <= 0

\* The test of the order's listing: the listing row is read now, without a
\* lock; a null reference or a positive quantity ends the request.
UpdateStatusReadListing(p) ==
    /\ pc[p] = "us_listing"
    /\ LET l == loc[p].order.listing
       IN  IF ListingToComplete(loc[p].order)
             THEN /\ loc' = [loc EXCEPT ![p].quantity = quantity[l]]
                  /\ pc' = [pc EXCEPT ![p] = "us_save_listing"]
                  /\ UNCHANGED <<db, listingLock, walletLock, wr, err>>
             ELSE Respond(p, "ok")
    /\ UNCHANGED <<call, ncalls, base, epochN, roundMode, chat>>

\* order.listing.status = 'completed'; order.listing.save(): an UPDATE of the
\* whole listing row with the values read, which waits for a row lock held
\* by a running transaction.
UpdateStatusSaveListing(p) ==
    /\ pc[p] = "us_save_listing"
    /\ LET l == loc[p].order.listing
       IN  /\ listingLock[l] = 0
           /\ quantity' = [quantity EXCEPT ![l] = loc[p].quantity]
           /\ status' = [status EXCEPT ![l] = "completed"]
    /\ Finish(p, "ok")
    /\ UNCHANGED <<balance, hasWallet, transactions, orders, listingLock, walletLock,
                   call, ncalls, base, epochN, roundMode, chat>>

\* The instance after ModelSerializer.update set the validated fields.
SetFields(order, data) ==
    [order EXCEPT
        !.listing = IF "listing_id" \in data.given THEN data.listing_id ELSE @,
        !.quantity_bought = IF "quantity_bought" \in data.given THEN data.quantity_bought ELSE @]

\* update / partial_update act on any order get_object() returns, whatever
\* its status: get_object(), then the serializer validates the
\* body; a PUT must carry both listing_id and quantity_bought.
OrderUpdateGet(p) ==
    /\ pc[p] = "ou_get"
    /\ LET c == call[p]
           rows == GetObject(c.user, c.order)
       IN  IF rows = <<>>
             THEN Respond(p, "NotFound")
             ELSE IF c.op = "update" /\ c.data.given # {"listing_id", "quantity_bought"}
               THEN Respond(p, "ValidationError")
               ELSE /\ loc' = [loc EXCEPT ![p] =
                          [order |-> SetFields(rows[1], c.data), quantity |-> 0]]
                    /\ pc' = [pc EXCEPT ![p] = "ou_save"]
                    /\ UNCHANGED <<db, listingLock, walletLock, wr, err>>
    /\ UNCHANGED <<call, ncalls, base, epochN, roundMode, chat>>

\* perform_update: serializer.save() sets the fields and saves the instance.
OrderUpdateSave(p) ==
    /\ pc[p] = "ou_save"
    /\ orders' = SaveRow(orders, loc[p].order)
    /\ Finish(p, "ok")
    /\ UNCHANGED <<balance, hasWallet, transactions, quantity, status,
                   listingLock, walletLock, call, ncalls, base, epochN, roundMode, chat>>

\* destroy: get_object().
OrderDestroyGet(p) ==
    /\ pc[p] = "od_get"
    /\ LET c == call[p]
           rows == GetObject(c.user, c.order)
       IN  IF rows = <<>>
             THEN Respond(p, "NotFound")
             ELSE /\ loc' = [loc EXCEPT ![p] = [order |-> rows[1], quantity |-> 0]]
                  /\ pc' = [pc EXCEPT ![p] = "od_delete"]
                  /\ UNCHANGED <<db, listingLock, walletLock, wr, err>>
    /\ UNCHANGED <<call, ncalls, base, epochN, roundMode, chat>>

\* perform_destroy: instance.delete() removes the row with the instance's pk.
OrderDestroyDelete(p) ==
    /\ pc[p] = "od_delete"
    /\ orders' = SelectSeq(orders, LAMBDA o : o.id # loc[p].order.id)
    /\ Finish(p, "ok")
    /\ UNCHANGED <<balance, hasWallet, transactions, quantity, status,
                   listingLock, walletLock, call, ncalls, base, epochN, roundMode, chat>>

NextOrders ==
    \E p \in Procs :
        \/ OrderBegin(p)
        \/ UpdateStatusGet(p)
        \/ UpdateStatusSaveOrder(p)
        \/ UpdateStatusReadListing(p)
        \/ UpdateStatusSaveListing(p)
        \/ OrderUpdateGet(p)
        \/ OrderUpdateSave(p)
        \/ OrderDestroyGet(p)
        \/ OrderDestroyDelete(p)

SpecOrders == InitOrders /\ [][NextOrders]_vars

\* ------------------------------------------------------------ other writers
\* Code outside create and add_credit that saves a Wallet or a Listing row:
\* the post_save signal of User (api/models.py), which saves the user's
\* wallet again whenever the user is saved (the djoser user endpoints of
\* rawlink_backend/urls.py save request.user); ListingViewSet's
\* partial_update, by which a vendor edits an available listing; and
\* update_status, which saves the order's listing.  Each reads the row
\* without a lock and later writes the whole row.

\* A PATCH body for a listing: only fields that are not modelled
\* (description), or quantity as well.
ListingData == [given : {{}, {"quantity"}}, quantity : {50}]

UserSaveCalls == [op : {"save_user"}, user : Users]
ListingUpdateCalls ==
    [op : {"listing_partial_update"}, user : Users, listing : Listings,
     data : ListingData]

\* The order placed earlier has been shipped by its vendor.
Shipped(d) ==
    [d EXCEPT !.orders = [i \in DOMAIN d.orders |-> [d.orders[i] EXCEPT !.status = "shipped"]]]

InitWrites ==
    /\ roundMode \in {"half_even", "half_away"}
    /\ \E c \in InitCredit, o \in PlacedOrders :
          InitWith(Shipped(CreateAlone(FirstRows(c), o)))

\* The handler a request starts in.
FirstWriteStep(c) ==
    IF c.op = "create" THEN "lock_listing"
    ELSE IF c.op = "add_credit" THEN "add_credit"
    ELSE IF c.op = "save_user" THEN "signal_read"
    ELSE IF c.op = "listing_partial_update" THEN "lu_get"
    ELSE "us_get"

\* A request arrives at an idle worker.
WriteBegin(p) ==
    /\ pc[p] = "idle"
    /\ ncalls < MaxCalls
    /\ \E c \in OrderCalls \cup CreditCalls \cup UserSaveCalls
                \cup ListingUpdateCalls \cup StatusCalls :
        /\ call' = [q \in Procs |->
               IF q = p THEN c ELSE IF AllIdle THEN NoCall ELSE call[q]]
        /\ pc' = [pc EXCEPT ![p] = FirstWriteStep(c)]
    /\ err' = [q \in Procs |->
           IF q = p THEN "running" ELSE IF AllIdle THEN "none" ELSE err[q]]
    /\ ncalls' = ncalls + 1
    /\ IF AllIdle
         THEN base' = Snapshot /\ epochN' = 1
         ELSE base' = base /\ epochN' = epochN + 1
    /\ UNCHANGED <<db, listingLock, walletLock, loc, wr, roundMode, chat>>

\* save_user_profile_and_wallet: hasattr(instance, "wallet") reads the
\* user's wallet row, if there is one.
SignalReadWallet(p) ==
    /\ pc[p] = "signal_read"
    /\ LET u == call[p].user
       IN  IF ~hasWallet[u]
             THEN Respond(p, "ok")
             ELSE /\ loc' = [loc EXCEPT ![p] = [NoLoc EXCEPT !.buyer_balance = balance[u]]]
                  /\ pc' = [pc EXCEPT ![p] = "signal_save"]
                  /\ UNCHANGED <<db, listingLock, walletLock, wr, err>>
    /\ UNCHANGED <<call, ncalls, base, epochN, roundMode, chat>>

\* instance.wallet.save(): an UPDATE of the whole wallet row with the values
\* read, which waits for a row lock held by a running transaction.
SignalSaveWallet(p) ==
    /\ pc[p] = "signal_save"
    /\ LET u == call[p].user
       IN  /\ walletLock[u] = 0
           /\ balance' = [balance EXCEPT ![u] = loc[p].buyer_balance]
    /\ Finish(p, "ok")
    /\ UNCHANGED <<hasWallet, transactions, quantity, status, orders,
                   listingLock, walletLock, call, ncalls, base, epochN, roundMode, chat>>

\* partial_update of a listing: get_object() on the available listings (404
\* otherwise), IsOwnerOrReadOnly (403 for anyone but the vendor), then the
\* serializer sets the fields of the body on the instance read.
ListingUpdateGet(p) ==
    /\ pc[p] = "lu_get"
    /\ LET c == call[p]
           l == c.listing
       IN  IF status[l] # "available"
             THEN Respond(p, "NotFound")
             ELSE IF c.user # Vendor[l]
               THEN Respond(p, "PermissionDenied")
               ELSE /\ loc' = [loc EXCEPT ![p] =
                          [NoLoc EXCEPT !.quantity =
                              IF "quantity" \in c.data.given
                                THEN c.data.quantity ELSE quantity[l]]]
                    /\ pc' = [pc EXCEPT ![p] = "lu_save"]
                    /\ UNCHANGED <<db, listingLock, walletLock, wr, err>>
    /\ UNCHANGED <<call, ncalls, base, epochN, roundMode, chat>>

\* perform_update: instance.save(), an UPDATE of the whole listing row (the
\* status read was "available"), which waits for a row lock held by a
\* running transaction.
ListingUpdateSave(p) ==
    /\ pc[p] = "lu_save"
    /\ LET l == call[p].listing
       IN  /\ listingLock[l] = 0
           /\ quantity' = [quantity EXCEPT ![l] = loc[p].quantity]
           /\ status' = [status EXCEPT ![l] = "available"]
    /\ Finish(p, "ok")
    /\ UNCHANGED <<balance, hasWallet, transactions, orders, listingLock, walletLock,
                   call, ncalls, base, epochN, roundMode, chat>>

NextWrites ==
    \E p \in Procs :
        \/ WriteBegin(p)
        \/ CreateLockListing(p)
        \/ CreateLockBuyerWallet(p)
        \/ CreateLockVendorWallet(p)
        \/ CreateTransfer(p)
        \/ CreateOrder(p)
        \/ CreateUpdateListing(p)
        \/ CreateRaise(p)
        \/ DeadlockAbort(p)
        \/ AddCreditRead(p)
        \/ AddCreditSave(p)
        \/ SignalReadWallet(p)
        \/ SignalSaveWallet(p)
        \/ ListingUpdateGet(p)
        \/ ListingUpdateSave(p)
        \/ UpdateStatusGet(p)
        \/ UpdateStatusSaveOrder(p)
        \/ UpdateStatusReadListing(p)
        \/ UpdateStatusSaveListing(p)

SpecWrites == InitWrites /\ [][NextWrites]_vars

\* ------------------------------------------------------------ websocket handshake
MaxDisconnects == 2

\* A user id that no row of the user table has.
UnknownUserId == 9

\* Token strings: the empty string, a string that is no JWT, and signed
\* tokens of type access or refresh, in date or expired, with their user_id.
BlankToken == [form |-> "blank", expired |-> FALSE, user_id |-> 0]
TokenInputs ==
    {BlankToken, [form |-> "garbage", expired |-> FALSE, user_id |-> 0]}
    \cup [form : {"access"}, expired : {FALSE}, user_id : {1, 2, UnknownUserId}]
    \cup [form : {"access"}, expired : {TRUE}, user_id : {1}]
    \cup [form : {"refresh"}, expired : {FALSE}, user_id : {1}]

\* The values of the query parameter "token", in the order of the query
\* string, and the authorization header of the handshake.
QueryInputs ==
    {<<>>} \cup {<<t>> : t \in TokenInputs}
    \cup {<<BlankToken, t>> : t \in {[form |-> "access", expired |-> FALSE, user_id |-> 2],
                                     [form |-> "access", expired |-> TRUE, user_id |-> 1]}}
HeaderInputs ==
    {NoHeader,
     [scheme |-> "Basic", token |-> [form |-> "access", expired |-> FALSE, user_id |-> 1]],
     [scheme |-> "Bearer", token |-> BlankToken],
     [scheme |-> "Bearer", token |-> [form |-> "access", expired |-> FALSE, user_id |-> 2]],
     [scheme |-> "Bearer", token |-> [form |-> "access", expired |-> TRUE, user_id |-> 1]]}
AuthScopes == [query : QueryInputs, header : HeaderInputs, user : {0}]

\* The handshakes of the chat clients: a token of user 1 or 2 in the query
\* string, or an expired one.
ChatScopes ==
    [query : {<<[form |-> "access", expired |-> FALSE, user_id |-> 1]>>,
              <<[form |-> "access", expired |-> FALSE, user_id |-> 2]>>,
              <<[form |-> "access", expired |-> TRUE, user_id |-> 1]>>},
     header : {NoHeader}, user : {0}]

\* A client opens ws/chat/ with some query string and headers.
Open(c, scopes) ==
    /\ connState[c] = "new"
    /\ \E sc \in scopes : scope' = [scope EXCEPT ![c] = sc]
    /\ connState' = [connState EXCEPT ![c] = "handshake"]
    /\ UNCHANGED <<api, room_group_name, groups, messages, msgSeq, queue, delivered,
                   rpc, rdata, rmsg, nsends, nedits, disconnects, printed>>

\* parse_qs(query_string): parameters with a blank value are left out.
ParseQs(q) == SelectSeq(q, LAMBDA t : t.form # "blank")

\* params.get("token", [None])[0]
QueryToken(q) == IF ParseQs(q) = <<>> THEN NoToken ELSE ParseQs(q)[1]

\* not token: None and the empty string.
Falsy(t) == t.form \in {"none", "blank"}

\* Mutant of ChosenToken: the header is read first, the query string only
\* when the header gives no token.
ChosenTokenHeaderFirst(sc) ==
    IF sc.header.scheme = "Bearer" /\ ~Falsy(sc.header.token)
      THEN sc.header.token
      ELSE QueryToken(sc.query)

\* The token the middleware goes on with: the query parameter, and the
\* Bearer header only if the query parameter gave none.
ChosenToken(sc) ==
    IF Falsy(QueryToken(sc.query))
      THEN IF sc.header.scheme = "Bearer" THEN sc.header.token ELSE QueryToken(sc.query)
      ELSE QueryToken(sc.query)

\* Mutant of get_user_from_token: the expiry of the token is not looked at.
get_user_ignoring_expiry(t) ==
    IF t.form = "access" /\ t.user_id \in Users THEN t.user_id ELSE 0

\* AccessToken(token_key) raises on a string that is no access token or is
\* expired, User.objects.get on an unknown id: AnonymousUser (0) in each case.
get_user_from_token(t) ==
    IF t.form = "access" /\ ~t.expired /\ t.user_id \in Users THEN t.user_id ELSE 0

\* JwtAuthMiddleware.__call__: DenyConnection unless the token gives a user,
\* otherwise the inner application (the consumer) is called.
JwtAuthMiddleware(c) ==
    /\ connState[c] = "handshake"
    /\ LET token == ChosenToken(scope[c])
           user == get_user_from_token(token)
       IN  IF ~Falsy(token) /\ user # 0
             THEN /\ scope' = [scope EXCEPT ![c].user = user]
                  /\ connState' = [connState EXCEPT ![c] = "connecting"]
             ELSE /\ connState' = [connState EXCEPT ![c] = "denied"]
                  /\ UNCHANGED scope
    /\ UNCHANGED <<api, room_group_name, groups, messages, msgSeq, queue, delivered,
                   rpc, rdata, rmsg, nsends, nedits, disconnects, printed>>

\* Mutant of ConnectSubscribe: the connection goes on without group_add.
ConnectSubscribeNoGroup(c) ==
    /\ connState[c] = "connecting"
    /\ room_group_name' = [room_group_name EXCEPT ![c] = scope[c].user]
    /\ connState' = [connState EXCEPT ![c] = "subscribed"]
    /\ UNCHANGED <<api, scope, groups, messages, msgSeq, queue, delivered,
                   rpc, rdata, rmsg, nsends, nedits, disconnects, printed>>

\* ChatConsumer.connect up to group_add: close() without a user, otherwise
\* room_group_name is set and the channel joins the group chat_<user id>.
ConnectSubscribe(c) ==
    /\ connState[c] = "connecting"
    /\ IF scope[c].user = 0
         THEN /\ connState' = [connState EXCEPT ![c] = "rejected"]
              /\ UNCHANGED <<room_group_name, groups>>
         ELSE /\ room_group_name' = [room_group_name EXCEPT ![c] = scope[c].user]
              /\ groups' = [groups EXCEPT ![scope[c].user] = @ \cup {c}]
              /\ connState' = [connState EXCEPT ![c] = "subscribed"]
    /\ UNCHANGED <<api, scope, messages, msgSeq, queue, delivered,
                   rpc, rdata, rmsg, nsends, nedits, disconnects, printed>>

\* ChatConsumer.connect: self.accept()
ConnectAccept(c) ==
    /\ connState[c] = "subscribed"
    /\ connState' = [connState EXCEPT ![c] = "open"]
    /\ UNCHANGED <<api, scope, room_group_name, groups, messages, msgSeq, queue,
                   delivered, rpc, rdata, rmsg, nsends, nedits, disconnects, printed>>

\* Mutant of GroupsAfterDisconnect: the channel is not taken out of its group.
GroupsAfterDisconnectKept(rgn, c, g) == g

\* ChatConsumer.disconnect: group_discard if room_group_name was set.
GroupsAfterDisconnect(rgn, c, g) ==
    IF rgn # 0 THEN [g EXCEPT ![rgn] = @ \ {c}] ELSE g

\* The disconnect handler of a consumer whose connect() has returned; it is
\* run once by the server, and a second time to look at its idempotence.
Disconnect(c) ==
    /\ connState[c] \in {"open", "rejected", "closed"}
    /\ rpc[c] = "idle"
    /\ disconnects[c] < MaxDisconnects
    /\ groups' = GroupsAfterDisconnect(room_group_name[c], c, groups)
    /\ connState' = [connState EXCEPT ![c] = "closed"]
    /\ disconnects' = [disconnects EXCEPT ![c] = @ + 1]
    /\ UNCHANGED <<api, scope, room_group_name, messages, msgSeq, queue, delivered,
                   rpc, rdata, rmsg, nsends, nedits, printed>>

NextAuth ==
    \/ \E c \in Conns : Open(c, AuthScopes)
    \/ \E c \in Conns : JwtAuthMiddleware(c)
    \/ \E c \in Conns : ConnectSubscribe(c)
    \/ \E c \in Conns : ConnectAccept(c)
    \/ \E c \in Conns : Disconnect(c)

SpecAuth == Init /\ [][NextAuth]_vars

\* ------------------------------------------------------------ chat
MaxSends == 2
MaxEdits == 1

\* The frames a client sends: text that is no JSON, or an object with a
\* message (possibly empty) and a receiver_id (0: missing).
SendInputs ==
    {NoData} \cup [json : {TRUE}, message : {"", "hi"},
                   receiver_id : {0, 1, 2, UnknownUserId}]

\* The frames that pass every test of receive().
GoodSends == [json : {TRUE}, message : {"hi"}, receiver_id : {1, 2}]

\* Mutant of ReceiveCheck: the content is not tested.
ReceiveCheckNoContent(d) ==
    IF ~d.json THEN "JSONDecodeError"
    ELSE IF d.receiver_id = 0 THEN "return"
    ELSE IF d.receiver_id \notin Users THEN "DoesNotExist"
    ELSE "ok"

\* receive() up to the receiver lookup: json.loads, the test of the two
\* fields, User.objects.get(id=receiver_id).
ReceiveCheck(d) ==
    IF ~d.json THEN "JSONDecodeError"
    ELSE IF d.message = "" \/ d.receiver_id = 0 THEN "return"
    ELSE IF d.receiver_id \notin Users THEN "DoesNotExist"
    ELSE "ok"

\* A frame arrives on an accepted connection; receive() returns, or ends in
\* its except clause, unless the payload and the receiver are good.
ReceiveBegin(c, inputs) ==
    /\ connState[c] = "open"
    /\ rpc[c] = "idle"
    /\ nsends < MaxSends
    /\ \E d \in inputs :
          /\ rdata' = [rdata EXCEPT ![c] = d]
          /\ rpc' = [rpc EXCEPT ![c] = IF ReceiveCheck(d) = "ok" THEN "create" ELSE "idle"]
          /\ printed' = [printed EXCEPT ![c] =
                            IF ReceiveCheck(d) \in {"ok", "return"} THEN "none"
                            ELSE ReceiveCheck(d)]
    /\ nsends' = nsends + 1
    /\ UNCHANGED <<api, connState, scope, room_group_name, groups, messages, msgSeq,
                   queue, delivered, rmsg, nedits, disconnects>>

\* Mutant of ReceiveCreate: receive() goes on to the broadcasts whether or
\* not the row was stored.
ReceiveCreateUnsaved(c) ==
    /\ rpc[c] = "create"
    /\ LET msg == [id |-> msgSeq + 1, sender |-> scope[c].user,
                   receiver |-> rdata[c].receiver_id, content |-> rdata[c].message]
       IN  /\ rmsg' = [rmsg EXCEPT ![c] = msg]
           /\ rpc' = [rpc EXCEPT ![c] = "send_receiver"]
           /\ \E ok \in BOOLEAN :
                 IF ok THEN /\ msgSeq' = msgSeq + 1
                            /\ messages' = Append(messages, msg)
                       ELSE UNCHANGED <<messages, msgSeq>>
    /\ UNCHANGED <<api, connState, scope, room_group_name, groups, queue, delivered,
                   rdata, nsends, nedits, disconnects, printed>>

\* Message.objects.create(sender=self.user, receiver=receiver, content=...):
\* the row is stored, or the database raises and receive() ends in its
\* except clause.
ReceiveCreate(c) ==
    /\ rpc[c] = "create"
    /\ LET msg == [id |-> msgSeq + 1, sender |-> scope[c].user,
                   receiver |-> rdata[c].receiver_id, content |-> rdata[c].message]
       IN  \E ok \in BOOLEAN :
             IF ok THEN /\ msgSeq' = msgSeq + 1
                        /\ messages' = Append(messages, msg)
                        /\ rmsg' = [rmsg EXCEPT ![c] = msg]
                        /\ rpc' = [rpc EXCEPT ![c] = "send_receiver"]
                        /\ UNCHANGED printed
                   ELSE /\ rpc' = [rpc EXCEPT ![c] = "idle"]
                        /\ printed' = [printed EXCEPT ![c] = "create"]
                        /\ UNCHANGED <<messages, msgSeq, rmsg>>
    /\ UNCHANGED <<api, connState, scope, room_group_name, groups, queue, delivered,
                   rdata, nsends, nedits, disconnects>>

\* channel_layer.group_send(chat_<g>, {"type": "chat_message", "message": f}):
\* the event is put on the channel of every member of the group.
GroupSend(g, f) ==
    [ch \in Conns |-> IF ch \in groups[g] THEN Append(queue[ch], f) ELSE queue[ch]]

\* The first group_send, to the receiver's group; if it raises, receive()
\* ends in its except clause.
ReceiveSendReceiver(c) ==
    /\ rpc[c] = "send_receiver"
    /\ \E ok \in BOOLEAN :
          IF ok THEN /\ queue' = GroupSend(rmsg[c].receiver, rmsg[c])
                     /\ rpc' = [rpc EXCEPT ![c] = "send_sender"]
                     /\ UNCHANGED printed
                ELSE /\ rpc' = [rpc EXCEPT ![c] = "idle"]
                     /\ printed' = [printed EXCEPT ![c] = "group_send receiver"]
                     /\ UNCHANGED queue
    /\ UNCHANGED <<api, connState, scope, room_group_name, groups, messages, msgSeq,
                   delivered, rdata, rmsg, nsends, nedits, disconnects>>

\* Mutant of ReceiveSendSender: nothing is sent to the sender's group.
ReceiveSendSenderNoEcho(c) ==
    /\ rpc[c] = "send_sender"
    /\ rpc' = [rpc EXCEPT ![c] = "idle"]
    /\ UNCHANGED <<api, connState, scope, room_group_name, groups, messages, msgSeq,
                   queue, delivered, rdata, rmsg, nsends, nedits, disconnects, printed>>

\* The second group_send, to the sender's own group chat_<self.user.id>.
ReceiveSendSender(c) ==
    /\ rpc[c] = "send_sender"
    /\ \E ok \in BOOLEAN :
          IF ok THEN /\ queue' = GroupSend(scope[c].user, rmsg[c])
                     /\ UNCHANGED printed
                ELSE /\ printed' = [printed EXCEPT ![c] = "group_send sender"]
                     /\ UNCHANGED queue
    /\ rpc' = [rpc EXCEPT ![c] = "idle"]
    /\ UNCHANGED <<api, connState, scope, room_group_name, groups, messages, msgSeq,
                   delivered, rdata, rmsg, nsends, nedits, disconnects>>

\* chat_message(event): the consumer, between two handlers, takes the next
\* event from its channel and sends it to its client.
chat_message(c) ==
    /\ connState[c] = "open"
    /\ rpc[c] = "idle"
    /\ queue[c] # <<>>
    /\ delivered' = [delivered EXCEPT ![c] = Append(@, Head(queue[c]))]
    /\ queue' = [queue EXCEPT ![c] = Tail(@)]
    /\ UNCHANGED <<api, connState, scope, room_group_name, groups, messages, msgSeq,
                   rpc, rdata, rmsg, nsends, nedits, disconnects, printed>>

\* Primary keys used in requests to the message resource, and their bodies.
MessageIds == {1}
MessageData == [given : SUBSET {"content"}, content : {"edited"}]

\* MessageViewSet.get_queryset: the rows the user sent or received.
MessageQueryset(u) == {i \in 1..Len(messages) : messages[i].sender = u \/ messages[i].receiver = u}

\* PUT and PATCH /messages/<id>/: 404 outside the queryset, 400 for a PUT
\* without content; otherwise the serializer sets the writable field content
\* and saves the row.
MessageUpdate(u) ==
    /\ nedits < MaxEdits
    /\ nedits' = nedits + 1
    /\ \E id \in MessageIds, op \in {"update", "partial_update"}, d \in MessageData :
          LET found == {i \in MessageQueryset(u) : messages[i].id = id}
          IN  IF found = {} \/ (op = "update" /\ "content" \notin d.given) \/ d.given = {}
                THEN UNCHANGED messages
                ELSE messages' = [i \in 1..Len(messages) |->
                                    IF i \in found THEN [messages[i] EXCEPT !.content = d.content]
                                    ELSE messages[i]]
    /\ UNCHANGED <<api, connState, scope, room_group_name, groups, msgSeq, queue,
                   delivered, rpc, rdata, rmsg, nsends, disconnects, printed>>

\* DELETE /messages/<id>/: 404 outside the queryset, otherwise the row goes.
MessageDestroy(u) ==
    /\ nedits < MaxEdits
    /\ nedits' = nedits + 1
    /\ \E id \in MessageIds :
          LET found == {i \in MessageQueryset(u) : messages[i].id = id}
          IN  messages' = SelectSeq(messages, LAMBDA m : m.id \notin {messages[i].id : i \in found})
    /\ UNCHANGED <<api, connState, scope, room_group_name, groups, msgSeq, queue,
                   delivered, rpc, rdata, rmsg, nsends, disconnects, printed>>

NextChat ==
    \/ \E c \in Conns : Open(c, ChatScopes)
    \/ \E c \in Conns : JwtAuthMiddleware(c)
    \/ \E c \in Conns : ConnectSubscribe(c)
    \/ \E c \in Conns : ConnectAccept(c)
    \/ \E c \in Conns : Disconnect(c)
    \/ \E c \in Conns : ReceiveBegin(c, SendInputs)
    \/ \E c \in Conns : ReceiveCreate(c)
    \/ \E c \in Conns : ReceiveSendReceiver(c)
    \/ \E c \in Conns : ReceiveSendSender(c)
    \/ \E c \in Conns : chat_message(c)
    \/ \E u \in Users : MessageUpdate(u)
    \/ \E u \in Users : MessageDestroy(u)

\* The chat reads no wallet, listing or order: one initial state of the API
\* rows stands for all.
InitChat ==
    /\ Init
    /\ roundMode = "half_even"
    /\ \A u \in Users : hasWallet[u]

SpecChat == InitChat /\ [][NextChat]_vars

\* The chat with clients that send good frames only and leave the stored
\* messages alone.
NextDelivery ==
    \/ \E c \in Conns : Open(c, ChatScopes)
    \/ \E c \in Conns : JwtAuthMiddleware(c)
    \/ \E c \in Conns : ConnectSubscribe(c)
    \/ \E c \in Conns : ConnectAccept(c)
    \/ \E c \in Conns : Disconnect(c)
    \/ \E c \in Conns : ReceiveBegin(c, GoodSends)
    \/ \E c \in Conns : ReceiveCreate(c)
    \/ \E c \in Conns : ReceiveSendReceiver(c)
    \/ \E c \in Conns : ReceiveSendSender(c)
    \/ \E c \in Conns : chat_message(c)

\* The server runs every handler it has begun and every consumer handles
\* the events on its channel; clients connect, send and leave as they like.
SpecDelivery ==
    /\ InitChat
    /\ [][NextDelivery]_vars
    /\ \A c \in Conns :
          /\ WF_vars(JwtAuthMiddleware(c))
          /\ WF_vars(ConnectSubscribe(c))
          /\ WF_vars(ConnectAccept(c))
          /\ WF_vars(ReceiveCreate(c))
          /\ WF_vars(ReceiveSendReceiver(c))
          /\ WF_vars(ReceiveSendSender(c))
          /\ WF_vars(chat_message(c))

\* ============================================================ claims
RECURSIVE SumAmounts(_)
SumAmounts(txs) == IF txs = <<>> THEN 0 ELSE Head(txs).amount + SumAmounts(Tail(txs))

\* Worker p ends a request in this step.
Ends(p) == pc[p] # "idle" /\ pc'[p] = "idle"
\* Worker p commits a successful create in this step.
CreateCommits(p) == pc[p] = "update_listing" /\ Ends(p) /\ err'[p] = "ok"
\* Both workers ran one request each, overlapping, and both have ended.
PairDone == AllIdle /\ epochN = 2

\* C1: for every wallet, in every reachable state, the sum of the amounts of
\* its Transaction records equals its balance.
C1_LedgerMatchesBalance ==
    \A u \in Users : hasWallet[u] => SumAmounts(transactions[u]) = balance[u]

\* C2: a successful wallet create changes the buyer's balance by exactly
\* -total_price and the vendor's by +total_price, total_price being
\* price_per_unit * quantity_bought, and appends exactly one purchase
\* Transaction of -total_price and one sale Transaction of +total_price.
C2_ExactTransfer ==
    [][\A p \in Procs :
        (CreateCommits(p) /\ call[p].payment_method = "wallet") =>
            LET u == call[p].user
                v == Vendor[call[p].listing]
                t == TotalPrice(call[p].listing, call[p].quantity_bought)
            IN  /\ balance'[u] * 100 = balance[u] * 100 - t
                /\ balance'[v] * 100 = balance[v] * 100 + t
                /\ Len(transactions'[u]) = Len(transactions[u]) + 1
                /\ Len(transactions'[v]) = Len(transactions[v]) + 1
                /\ transactions'[u][Len(transactions'[u])].type = "purchase"
                /\ transactions'[u][Len(transactions'[u])].amount * 100 = -t
                /\ transactions'[v][Len(transactions'[v])].type = "sale"
                /\ transactions'[v][Len(transactions'[v])].amount * 100 = t]_vars

\* The two overlapping requests compete for a listing whose quantity is
\* enough for either but not for both, and each would succeed when run alone.
Competing ==
    /\ PairDone
    /\ call[1].op = "create" /\ call[2].op = "create"
    /\ call[1].listing = call[2].listing
    /\ CreateOutcome(base, call[1]) = "ok" /\ CreateOutcome(base, call[2]) = "ok"
    /\ call[1].quantity_bought > 0 /\ call[2].quantity_bought > 0
    /\ call[1].quantity_bought + call[2].quantity_bought > base.quantity[call[1].listing]
    /\ err[1] # "DatabaseError" /\ err[2] # "DatabaseError"

\* C3: of the concurrent creates competing for a listing with enough for one,
\* exactly one succeeds and the other fails with InsufficientInventory or
\* ListingUnavailable.
C3_ExactlyOneSucceeds ==
    Competing =>
        \E p \in Procs :
            /\ err[p] = "ok"
            /\ \A q \in Procs \ {p} :
                 err[q] \in {"InsufficientInventory", "ListingUnavailable"}
            /\ Len(orders) = Len(base.orders) + 1
            /\ quantity[call[p].listing] =
                 base.quantity[call[p].listing] - call[p].quantity_bought

C3_Witness ==
    /\ Competing
    /\ call[1].user # call[2].user
    /\ \E p \in Procs : err[p] = "ListingUnavailable"

\* C4: a create that fails at any step leaves every committed row as it was,
\* and the committed rows change only in the step that commits a successful
\* request: no other request sees an intermediate value.
C4_AllOrNothing ==
    /\ [](\A p \in Procs :
            (AllIdle /\ epochN = 1 /\ call[p].op = "create" /\ err[p] # "ok")
                => Snapshot = base)
    /\ [][/\ \A p \in Procs : (Ends(p) /\ err'[p] # "ok") => db' = db
          /\ db' # db => \E p \in Procs : Ends(p) /\ err'[p] = "ok"
                            /\ pc[p] \in {"update_listing", "credit_save"}]_vars

C4_Witness ==
    \E p \in Procs :
        /\ AllIdle /\ epochN = 1
        /\ call[p].op = "create" /\ call[p].payment_method = "wallet"
        /\ err[p] = "DatabaseError"
        /\ Snapshot = base

\* C5: no reachable state has two creates each holding one wallet lock and
\* waiting for the wallet lock the other holds (refuted already by requests
\* with positive quantities).
C5_NoWalletDeadlock ==
    ~ \E p \in Procs, q \in Procs :
        /\ p # q
        /\ pc[p] = "lock_vendor" /\ pc[q] = "lock_vendor"
        /\ call[p].quantity_bought > 0 /\ call[q].quantity_bought > 0
        /\ walletLock[call[p].user] = p /\ walletLock[call[q].user] = q
        /\ Vendor[call[p].listing] = call[q].user
        /\ Vendor[call[q].listing] = call[p].user

\* The wallets a wallet create touches.
Touched(c) == {c.user, Vendor[c.listing]}

\* C6: two concurrent wallet creates that touch a common wallet leave every
\* wallet's balance and transactions as one of the two sequential orders of
\* the two calls would (refuted already by requests with positive
\* quantities and no injected database error).
C6_Serializable ==
    ( /\ PairDone
      /\ call[1].op = "create" /\ call[2].op = "create"
      /\ call[1].payment_method = "wallet" /\ call[2].payment_method = "wallet"
      /\ call[1].quantity_bought > 0 /\ call[2].quantity_bought > 0
      /\ Touched(call[1]) \cap Touched(call[2]) # {}
      /\ err[1] # "DatabaseError" /\ err[2] # "DatabaseError" )
    =>  LET s12 == CreateAlone(CreateAlone(base, call[1]), call[2])
            s21 == CreateAlone(CreateAlone(base, call[2]), call[1])
        IN  \/ balance = s12.balance /\ transactions = s12.transactions
            \/ balance = s21.balance /\ transactions = s21.transactions

\* C7: every wallet balance is >= 0 in every reachable state.
C7_BalanceNonNegative == \A u \in Users : balance[u] >= 0

\* C8: every listing's quantity is >= 0 in every reachable state.
C8_QuantityNonNegative == \A l \in Listings : quantity[l] >= 0

C8_Witness ==
    \E l \in Listings, p \in Procs :
        /\ quantity[l] = 0
        /\ Len(orders) > 0
        /\ call[p].op = "create" /\ call[p].listing = l
        /\ err[p] = "ListingUnavailable"

\* C9: a successful create leaves the listing's quantity at its quantity
\* before minus quantity_bought, and its status "completed" exactly when
\* that quantity is <= 0, "available" otherwise.
C9_InventoryUpdate ==
    [][\A p \in Procs :
        CreateCommits(p) =>
            LET l == call[p].listing
            IN  /\ quantity'[l] = quantity[l] - call[p].quantity_bought
                /\ (status'[l] = "completed") <=> (quantity'[l] <= 0)
                /\ quantity'[l] > 0 => status'[l] = "available"]_vars

C9_Witness ==
    \E p \in Procs :
        /\ pc[p] = "idle" /\ call[p].op = "create" /\ err[p] = "ok"
        /\ quantity[call[p].listing] = 0
        /\ status[call[p].listing] = "completed"

\* The first violated precondition in the order: listing available, buyer
\* not the vendor, quantity within inventory, buyer wallet exists, buyer
\* balance covers total_price, vendor wallet exists.
FirstViolated(c) ==
    LET l == c.listing
        w == c.payment_method = "wallet"
    IN  IF status[l] # "available" THEN "ListingUnavailable"
        ELSE IF c.user = Vendor[l] THEN "SelfPurchaseForbidden"
        ELSE IF c.quantity_bought > quantity[l] THEN "InsufficientInventory"
        ELSE IF w /\ ~hasWallet[c.user] THEN "BuyerWalletNotFound"
        ELSE IF w /\ balance[c.user] * 100 < Price[l] * c.quantity_bought
            THEN "InsufficientFunds"
        ELSE IF w /\ ~hasWallet[Vendor[l]] THEN "VendorWalletNotFound"
        ELSE "ok"

\* C10: a create that ends with a precondition error, or succeeds, ends with
\* the first violated precondition of the fixed order.
C10_FirstErrorWins ==
    [][\A p \in Procs :
        (Ends(p) /\ call[p].op = "create"
            /\ err'[p] \notin {"DatabaseError", "DeadlockDetected"})
        => err'[p] = FirstViolated(call[p])]_vars

C10_Witness ==
    \E p \in Procs :
        /\ call[p].op = "create"
        /\ err[p] = "SelfPurchaseForbidden"
        /\ call[p].quantity_bought > quantity[call[p].listing]
        /\ call[p].payment_method = "wallet"
        /\ ~hasWallet[call[p].user]

\* C11 as stated: no Order has its buyer as vendor, and a create by the
\* listing's own vendor ends with SelfPurchaseForbidden, whatever the state
\* of the listing, and changes no row.
C11_AlwaysSelfPurchaseForbidden ==
    /\ [](\A i \in 1..Len(orders) : orders[i].buyer # orders[i].vendor)
    /\ [][\A p \in Procs :
            (Ends(p) /\ call[p].op = "create"
                /\ call[p].user = Vendor[call[p].listing])
            => (err'[p] = "SelfPurchaseForbidden" /\ db' = db)]_vars

\* C11: no Order has its buyer as vendor; a create by the listing's own
\* vendor changes no row and ends with SelfPurchaseForbidden when the listing
\* is available, with ListingUnavailable when it is not, for every quantity
\* and payment method.
C11_NoSelfPurchase ==
    /\ [](\A i \in 1..Len(orders) : orders[i].buyer # orders[i].vendor)
    /\ [][\A p \in Procs :
            (Ends(p) /\ call[p].op = "create"
                /\ call[p].user = Vendor[call[p].listing])
            => /\ db' = db
               /\ err'[p] = IF status[call[p].listing] = "available"
                              THEN "SelfPurchaseForbidden"
                              ELSE "ListingUnavailable"]_vars

C11_Witness ==
    \E p \in Procs, q \in Procs :
        /\ p # q /\ AllIdle
        /\ call[p].op = "create" /\ call[p].user = Vendor[call[p].listing]
        /\ call[p].payment_method = "cash" /\ call[p].quantity_bought = 25
        /\ err[p] = "SelfPurchaseForbidden"
        /\ call[q].op = "create" /\ err[q] = "ok"
        /\ call[q].listing = call[p].listing

\* The Order row a successful create adds.
LastOrder(os) == os[Len(os)]

\* C12: a successful create adds exactly one Order, with status "confirmed",
\* total_price equal to price_per_unit * quantity_bought and listing_title
\* equal to the listing's title; a failed create and every other step add
\* none.
C12_OneOrderPerSuccess ==
    [][/\ \A p \in Procs :
            CreateCommits(p) =>
                /\ Len(orders') = Len(orders) + 1
                /\ SubSeq(orders', 1, Len(orders)) = orders
                /\ LastOrder(orders').status = "confirmed"
                /\ LastOrder(orders').listing_title = Title[call[p].listing]
                /\ LastOrder(orders').total_price * 100 =
                     TotalPrice(call[p].listing, call[p].quantity_bought)
       /\ (~ \E p \in Procs : CreateCommits(p)) => orders' = orders]_vars

\* The outcome of the checks a create makes when it is not paid by wallet.
ListingOutcome(c) ==
    IF status[c.listing] # "available" THEN "ListingUnavailable"
    ELSE IF c.user = Vendor[c.listing] THEN "SelfPurchaseForbidden"
    ELSE IF c.quantity_bought > quantity[c.listing] THEN "InsufficientInventory"
    ELSE "ok"

\* C13: a create with a payment method other than "wallet" never changes a
\* balance or a Transaction; when it succeeds it adds the confirmed Order and
\* decrements the listing, flipping its status at <= 0; and it succeeds
\* whenever the listing checks pass, whatever the balances and whether or not
\* the wallets exist.
C13_NonWalletSkipsWallets ==
    [][\A p \in Procs :
        (Ends(p) /\ call[p].op = "create" /\ call[p].payment_method # "wallet") =>
            LET c == call[p]
                l == c.listing
            IN  /\ balance' = balance /\ transactions' = transactions
                /\ hasWallet' = hasWallet
                /\ err'[p] \notin {"DatabaseError", "DeadlockDetected"}
                      => err'[p] = ListingOutcome(c)
                /\ err'[p] = "ok" =>
                      /\ Len(orders') = Len(orders) + 1
                      /\ LastOrder(orders').status = "confirmed"
                      /\ LastOrder(orders').buyer = c.user
                      /\ LastOrder(orders').listing = l
                      /\ quantity'[l] = quantity[l] - c.quantity_bought
                      /\ (status'[l] = "completed") <=> (quantity'[l] <= 0)]_vars

C13_Witness ==
    \E p \in Procs :
        /\ pc[p] = "idle" /\ call[p].op = "create" /\ err[p] = "ok"
        /\ call[p].payment_method = "cash"
        /\ ~hasWallet[call[p].user]
        /\ balance[call[p].user] * 100 <
             TotalPrice(call[p].listing, call[p].quantity_bought)
        /\ transactions = base.transactions
        /\ status[call[p].listing] = "completed"

\* C14: an add_credit whose amount is missing, not a number, zero or negative
\* is rejected and changes no row; one that succeeds raises the caller's
\* balance by exactly the amount, appends exactly one credit Transaction of
\* that amount, and touches no other wallet.
C14_CreditExact ==
    [][\A p \in Procs :
        (Ends(p) /\ call[p].op = "add_credit") =>
            LET a == call[p].amount
                u == call[p].user
            IN  IF a.kind # "num" \/ a.val <= 0
                  THEN err'[p] # "ok" /\ db' = db
                  ELSE err'[p] = "ok" =>
                        /\ balance'[u] * 100 = balance[u] * 100 + a.val
                        /\ Len(transactions'[u]) = Len(transactions[u]) + 1
                        /\ LastOrder(transactions'[u]).type = "credit"
                        /\ LastOrder(transactions'[u]).amount * 100 = a.val
                        /\ \A w \in Users \ {u} :
                              /\ balance'[w] = balance[w]
                              /\ transactions'[w] = transactions[w]]_vars

\* The committed rows after request c ran alone on d.
RunAlone(d, c) == IF c.op = "create" THEN CreateAlone(d, c) ELSE CreditAlone(d, c)

\* The wallets a request writes.
Writes(c) ==
    IF c.op = "add_credit" THEN {c.user}
    ELSE IF c.payment_method = "wallet" THEN Touched(c) ELSE {}

\* C15: two overlapping requests, one an add_credit and the other an
\* add_credit or a wallet create, that both succeed and write a common
\* wallet leave that wallet's balance as one of the two sequential orders of
\* the two requests would.
C15_CreditAtomic ==
    ( /\ PairDone
      /\ call[1].op = "add_credit" \/ call[2].op = "add_credit"
      /\ err[1] = "ok" /\ err[2] = "ok" )
    =>  LET s12 == RunAlone(RunAlone(base, call[1]), call[2])
            s21 == RunAlone(RunAlone(base, call[2]), call[1])
        IN  \A u \in Writes(call[1]) \cap Writes(call[2]) :
                balance[u] \in {s12.balance[u], s21.balance[u]}

\* A request that is not meant to change a balance or a quantity: a user
\* save, a listing PATCH that carries no quantity, an update_status.
Bystander(c) ==
    \/ c.op \in {"save_user", "update_status"}
    \/ c.op = "listing_partial_update" /\ c.data.given = {}

\* C16: when a successful create overlaps a request of another code path
\* that saves a wallet or a listing row (the user post_save signal, a
\* listing edit, update_status), the balances and quantities the settlement
\* committed are still in place when both have ended: the other path never
\* puts back the value it read earlier (refuted already by creates with
\* positive quantities).
C16_NoStaleOverwrite ==
    \A p \in Procs, q \in Procs :
        ( /\ PairDone /\ p # q
          /\ call[p].op = "create" /\ err[p] = "ok"
          /\ call[p].quantity_bought > 0
          /\ Bystander(call[q]) )
        => /\ balance = CreateAlone(base, call[p]).balance
           /\ quantity = CreateAlone(base, call[p]).quantity

\* Worker p, running request kind op, takes this step.
StepOf(p, ops) == pc[p] # "idle" /\ pc'[p] # pc[p] /\ call[p].op \in ops

\* The committed Order row with primary key i, as a sequence of 0 or 1 rows.
Row(os, i) == SelectSeq(os, LAMBDA o : o.id = i)

\* C17: a step of update_status changes an Order's status only from
\* confirmed to shipped for the order's vendor or from shipped to completed
\* for its buyer, and a request that fails leaves every Order as it was.
\* Hence no status moves backward, completed is terminal, pending and
\* cancelled are never entered.
C17_StatusMachine ==
    [][\A p \in Procs :
        StepOf(p, {"update_status"}) =>
            /\ \A i \in OrderIds :
                  (Row(orders, i) # <<>> /\ Row(orders', i) # <<>>) =>
                      LET o == Row(orders, i)[1]
                          n == Row(orders', i)[1]
                      IN  \/ n.status = o.status
                          \/ /\ o.status = "confirmed" /\ n.status = "shipped"
                             /\ call[p].user = o.vendor
                          \/ /\ o.status = "shipped" /\ n.status = "completed"
                             /\ call[p].user = o.buyer
            /\ (pc'[p] = "idle" /\ err'[p] # "ok") => orders' = orders]_vars

\* C18: an update_status on an existing Order by a user who is neither its
\* buyer nor its vendor ends with NotAuthorized and leaves the Order as it
\* was.
C18_OutsiderNotAuthorized ==
    [][\A p \in Procs :
        ( /\ StepOf(p, {"update_status"}) /\ pc[p] = "us_get"
          /\ Row(orders, call[p].order) # <<>>
          /\ call[p].user \notin {Row(orders, call[p].order)[1].buyer,
                                   Row(orders, call[p].order)[1].vendor} )
        => (pc'[p] = "idle" /\ err'[p] = "NotAuthorized" /\ orders' = orders)]_vars

C20_ClosedOrderImmutable ==
    [][\A p \in Procs :
        StepOf(p, {"update_status", "update", "partial_update", "destroy"}) =>
            \A i \in OrderIds :
                ( /\ Row(orders, i) # <<>>
                  /\ Row(orders, i)[1].status \in {"completed", "cancelled"} )
                => Row(orders', i) = Row(orders, i)]_vars

\* A token that is a well-formed access token, in date, of an existing user.
ValidToken(t) == t.form = "access" /\ ~t.expired /\ t.user_id \in Users

\* The non-empty values of the query parameter "token" in a handshake.
NonEmpty(sc) == {i \in 1..Len(sc.query) : sc.query[i].form # "blank"}

\* The token of a connection attempt: the first non-empty value of the query
\* parameter, without one the token of a Bearer header, without one none.
TokenOf(sc) ==
    IF NonEmpty(sc) # {}
      THEN sc.query[CHOOSE i \in NonEmpty(sc) : \A j \in NonEmpty(sc) : i <= j]
      ELSE IF sc.header.scheme = "Bearer" THEN sc.header.token ELSE NoToken

\* The groups connection c is a member of.
GroupsOf(c) == {u \in Users : c \in groups[u]}

\* C21: a connection attempt whose token is absent, malformed, expired or
\* names an unknown user never gets past the authenticator: the consumer's
\* connect handler does not run for it, it is not accepted and it joins no
\* group; and every connection the consumer sees has an authenticated user.
C21_BadTokenDenied ==
    \A c \in Conns :
        /\ connState[c] # "new" /\ ~ValidToken(TokenOf(scope[c]))
             => /\ connState[c] \in {"handshake", "denied"}
                /\ GroupsOf(c) = {}
                /\ room_group_name[c] = 0
        /\ connState[c] \in {"connecting", "subscribed", "open", "rejected"}
             => scope[c].user \in Users

\* An attempt with an expired token has been denied while another connection
\* is open.
C21_Witness ==
    \E c, d \in Conns :
        /\ connState[c] = "denied"
        /\ TokenOf(scope[c]).form = "access" /\ TokenOf(scope[c]).expired
        /\ connState[d] = "open"

\* C22: when the query parameter "token" has a non-empty value, that value
\* alone decides whether the connection is admitted, whatever the header
\* carries; the token of a Bearer header decides only when it has none.
C22_QueryTokenFirst ==
    \A c \in Conns :
        connState[c] \notin {"new", "handshake"} =>
            LET sc == scope[c]
                admitted == connState[c] # "denied"
            IN  /\ NonEmpty(sc) # {} =>
                      /\ admitted <=> ValidToken(TokenOf(sc))
                      /\ admitted => sc.user = TokenOf(sc).user_id
                /\ NonEmpty(sc) = {} =>
                      /\ admitted <=> sc.header.scheme = "Bearer" /\ ValidToken(sc.header.token)
                      /\ admitted => sc.user = sc.header.token.user_id

\* A connection has been denied on an invalid query token although its
\* header carried a valid one.
C22_Witness ==
    \E c \in Conns :
        /\ connState[c] = "denied"
        /\ NonEmpty(scope[c]) # {}
        /\ scope[c].header.scheme = "Bearer" /\ ValidToken(scope[c].header.token)

\* C23: every accepted connection is a member of exactly one group, the
\* group of its authenticated user, and a user's group holds only connections
\* authenticated as that user.
C23_OneGroupPerConnection ==
    /\ \A c \in Conns : connState[c] = "open" => GroupsOf(c) = {scope[c].user}
    /\ \A u \in Users : \A c \in groups[u] : scope[c].user = u

\* Two accepted connections of different users.
C23_Witness ==
    \E c, d \in Conns :
        /\ connState[c] = "open" /\ connState[d] = "open"
        /\ scope[c].user # scope[d].user

\* The frames with primary key m in a sequence of frames.
Has(fs, m) == \E i \in 1..Len(fs) : fs[i].id = m

\* Connection c's disconnect handler runs in this step.
Disconnects(c) == disconnects'[c] > disconnects[c]

\* C24: a step of disconnect leaves the connection in no group and every
\* other connection's membership as it was; a second disconnect changes no
\* group, no queue and no row; a disconnect of a consumer that never set its
\* room_group_name changes no group; and once a connection has disconnected
\* no event is put on its channel and no frame is sent to its client.
C24_DisconnectIdempotent ==
    [][/\ \A c \in Conns :
            Disconnects(c) =>
                /\ \A u \in Users : groups'[u] = groups[u] \ {c}
                /\ disconnects[c] > 0 =>
                      /\ groups' = groups
                      /\ connState' = connState
                      /\ <<queue, delivered, messages>>' = <<queue, delivered, messages>>
       /\ \A c \in Conns :
            disconnects[c] > 0 => queue'[c] = queue[c] /\ delivered'[c] = delivered[c]
       /\ \A c \in Conns : GroupsAfterDisconnect(0, c, groups) = groups]_vars

\* A connection that was in a group has disconnected twice, and a frame has
\* been sent to another connection while it got none.
C24_Witness ==
    \E c, d \in Conns :
        /\ disconnects[c] = 2 /\ room_group_name[c] # 0
        /\ delivered[c] = <<>> /\ delivered[d] # <<>>

\* C25: every frame put on a channel, and so every frame delivered, is the
\* record of a handler that has stored it before (its primary key has been
\* given out by a successful create), and a receive() whose create fails
\* ends at once: it puts nothing on any channel.
C25_PersistBeforeBroadcast ==
    [][/\ \A ch \in Conns :
            queue'[ch] # queue[ch] /\ Len(queue'[ch]) > Len(queue[ch]) =>
                LET f == queue'[ch][Len(queue'[ch])]
                IN  /\ f.id \in 1..msgSeq
                    /\ \E c \in Conns : rmsg[c] = f /\ rpc[c] \in {"send_receiver", "send_sender"}
       /\ \A ch \in Conns : \A i \in 1..Len(delivered'[ch]) : delivered'[ch][i].id \in 1..msgSeq
       /\ \A c \in Conns :
            (rpc[c] = "create" /\ rpc'[c] # "create" /\ msgSeq' = msgSeq) =>
                rpc'[c] = "idle" /\ queue' = queue]_vars

\* A frame has been delivered, and a receive() with a good payload has ended
\* without a stored record.
C25_Witness ==
    \E c, d \in Conns :
        /\ delivered[d] # <<>>
        /\ rpc[c] = "idle" /\ ReceiveCheck(rdata[c]) = "ok" /\ printed[c] = "create"

\* A group_send that does not raise puts the record on the channel of every
\* connection then in the group: the receiver's group first, the sender's
\* group second.
BothGroupsSent ==
    \A s \in Conns :
        /\ (rpc[s] = "send_receiver" /\ rpc'[s] = "send_sender") =>
              \A c \in groups[rmsg[s].receiver] :
                  queue'[c] = Append(queue[c], rmsg[s])
        /\ (rpc[s] = "send_sender" /\ rpc'[s] = "idle" /\ printed'[s] = "none") =>
              \A c \in groups[scope[s].user] :
                  /\ queue'[c] = Append(queue[c], rmsg[s])
                  /\ rmsg[s].sender = scope[s].user

\* C26 as stated: after a receive() that stored its record and whose
\* group_sends did not raise, every connection then in the receiver's or the
\* sender's group has the record on its channel and eventually receives it.
C26_EveryoneReceives ==
    /\ [][BothGroupsSent]_vars
    /\ \A c \in Conns : \A m \in 1..MaxSends :
          Has(queue[c], m) ~> Has(delivered[c], m)

\* C26, amended: ... and eventually receives it unless it disconnects first.
C26_ReceivesUnlessGone ==
    /\ [][BothGroupsSent]_vars
    /\ \A c \in Conns : \A m \in 1..MaxSends :
          Has(queue[c], m) ~> (Has(delivered[c], m) \/ connState[c] = "closed")

\* Two connections of different users have both received record 1.
C26_Witness ==
    /\ \A c \in Conns : Has(delivered[c], 1)
    /\ scope[1].user # scope[2].user

\* C27: the receive() that has stored its record goes from the broadcast to
\* the receiver's group on to the broadcast to the sender's group whether or
\* not the first raised, and neither broadcast touches the stored rows.
C27_OtherGroupStillSent ==
    [][\A c \in Conns :
         /\ (rpc[c] = "send_receiver" /\ rpc'[c] # "send_receiver") =>
               rpc'[c] = "send_sender" /\ messages' = messages
         /\ (rpc[c] = "send_sender" /\ rpc'[c] # "send_sender") =>
               messages' = messages]_vars

\* C28: a frame with empty content, without receiver_id or with a
\* receiver_id of no user ends receive() in the step it arrives: no row is
\* stored, nothing is put on any channel, and the connection stays open and
\* in its group.
C28_InvalidSendNoEffect ==
    [][\A c \in Conns :
         ( /\ nsends' = nsends + 1
           /\ rpc[c] = "idle" /\ connState[c] = "open"
           /\ rdata'[c].json
           /\ \/ rdata'[c].message = ""
              \/ rdata'[c].receiver_id \notin Users )
         => /\ rpc'[c] = "idle"
            /\ <<messages, msgSeq, queue, delivered>>' = <<messages, msgSeq, queue, delivered>>
            /\ connState'[c] = "open"
            /\ c \in groups'[scope[c].user]]_vars

\* An open connection's last frame had empty content or a bad receiver_id,
\* and receive() is over.
C28_Witness ==
    \E c \in Conns :
        /\ connState[c] = "open" /\ rpc[c] = "idle" /\ nsends > 0
        /\ rdata[c].json
        /\ rdata[c].message = "" \/ rdata[c].receiver_id \notin Users

\* C29: Transaction records are append-only: every step of an order creation
\* or of add_credit, and every other step of the wallet API, leaves each
\* wallet's existing records in place and unchanged, adding new ones only at
\* the end.
C29_TransactionsAppendOnly ==
    [][\A u \in Users :
         /\ Len(transactions'[u]) >= Len(transactions[u])
         /\ SubSeq(transactions'[u], 1, Len(transactions[u])) = transactions[u]]_vars

\* A wallet that has received a record on top of an earlier one.
C29_Witness == \E u \in Users : Len(transactions[u]) >= 2

\* C30: a stored Message is immutable: no step changes the content, sender
\* or receiver of a row or removes it.
C30_MessageImmutable ==
    [][\A i \in 1..Len(messages) :
         Len(messages') >= i /\ messages'[i] = messages[i]]_vars

\* C31: when the buyer's update_status has saved the order as completed, the
\* order is stored as completed; the handler then sets the order's listing
\* to completed if the order has a listing whose stored quantity is <= 0, and
\* otherwise (quantity > 0, or a null listing reference) ends without
\* changing any listing.
C31_ListingCompletedWithOrder ==
    [][\A p \in Procs :
        (StepOf(p, {"update_status"}) /\ call[p].status = "completed") =>
            /\ pc[p] = "us_save_order" =>
                  /\ Row(orders', call[p].order) # <<>>
                  /\ Row(orders', call[p].order)[1].status = "completed"
                  /\ pc'[p] = "us_listing"
                  /\ quantity' = quantity /\ status' = status
            /\ pc[p] = "us_listing" =>
                  LET l == loc[p].order.listing
                  IN  /\ quantity' = quantity /\ status' = status
                      /\ IF l # 0 /\ status[l] # "deleted" /\ quantity[l] <= 0
                            THEN pc'[p] = "us_save_listing"
                            ELSE pc'[p] = "idle" /\ err'[p] = "ok"
            /\ pc[p] = "us_save_listing" =>
                  LET l == loc[p].order.listing
                  IN  /\ status'[l] = "completed"
                      /\ quantity' = quantity
                      /\ \A k \in Listings \ {l} : status'[k] = status[k]
                      /\ pc'[p] = "idle" /\ err'[p] = "ok"]_vars

\* The buyer has completed an order whose listing reference is null.
C31_Witness ==
    \E p \in Procs :
        /\ pc[p] = "idle" /\ err[p] = "ok"
        /\ call[p].op = "update_status" /\ call[p].status = "completed"
        /\ Row(orders, call[p].order) # <<>>
        /\ Row(orders, call[p].order)[1].status = "completed"
        /\ Row(orders, call[p].order)[1].listing = 0
        /\ \A l \in Listings : status[l] # "completed"

\* The sum of all wallet balances, in cents.
TotalBalance(b) == b[1] + b[2] + b[3]

\* C32: settlement conserves money: no step of an order creation changes the
\* sum of all wallet balances, and a step of add_credit changes it by nothing
\* or by the amount credited.
C32_MoneyConserved ==
    [][\A p \in Procs :
        /\ StepOf(p, {"create"}) => TotalBalance(balance') = TotalBalance(balance)
        /\ StepOf(p, {"add_credit"}) =>
              \/ TotalBalance(balance') = TotalBalance(balance)
              \/ /\ call[p].amount.kind = "num"
                 /\ (TotalBalance(balance') - TotalBalance(balance)) * 100 = call[p].amount.val]_vars

\* C33: every stored Order has a quantity_bought > 0, and no listing holds
\* more than it was created with.
C33_PositiveQuantity ==
    /\ \A i \in 1..Len(orders) : orders[i].quantity_bought > 0
    /\ \A l \in Listings : quantity[l] <= InitQuantity[l]

\* C34: no connection is sent the same stored Message twice.
C34_AtMostOnce ==
    \A c \in Conns :
        \A i, j \in 1..Len(delivered[c]) :
            delivered[c][i].id = delivered[c][j].id => i = j

====
